---- MODULE Spec2Model ----
(***************************************************************************)
(* Model of the ArTui article store (src/artui/database.py): the SQLite    *)
(* tables articles, article_status, tags and article_tags, the operations  *)
(* of ArticleDatabase that write them, and the queries and counters that   *)
(* read them.                                                              *)
(*                                                                         *)
(* A table is the set of its rows.  `db` is the committed content of the   *)
(* database file.  Every method of ArticleDatabase opens its own           *)
(* connection (get_connection) and commits when its `with` block ends, so  *)
(* a method that writes in one transaction is one action on `db`.          *)
(* cleanup_old_unsaved_articles is modelled statement by statement: its    *)
(* connection's uncommitted view of the tables is `conn`.  For the         *)
(* interleaving of the event loop with a worker thread, add_article and    *)
(* add_articles_batch are also modelled statement by statement (`ui`,      *)
(* `worker`).  The fetcher (src/artui/fetcher.py) adds the table            *)
(* fetched_categories and the steps of fetch_all_categories (`fetcher`),   *)
(* and the key bindings of the app (src/artui/app.py) act on the article   *)
(* objects of its results table (`search_results`, `notes_popup`).         *)
(*                                                                         *)
(* Columns that no modelled statement reads (entry_id, title, authors,     *)
(* summary, citation_count, created_at, updated_at) are left out,          *)
(* and with them the free-text listings.  Time is counted in days, and     *)
(* publication dates and datetime.now() are read off the same clock; the   *)
(* fetcher, whose threshold is a number of hours, reads a clock of hours.  *)
(***************************************************************************)
EXTENDS Integers, Sequences, FiniteSets, TLC

VARIABLES
    db,             \* committed tables: articles, article_status, tags, article_tags, tag_seq
    conn,           \* uncommitted view of the connection of cleanup_old_unsaved_articles
    pc,             \* position of cleanup_old_unsaved_articles
    retention_days, \* its parameter retention_days
    ids_to_delete,  \* its local article_ids_to_delete
    deleted_count,  \* its local deleted_count
    now,            \* datetime.now(), in days
    last,           \* the call that has just returned, if its method is observed:
                    \* method, article id, result, exception
    observed,       \* the methods whose calls `last` records (fixed by the specification)
    ui,             \* the add_article call of the event loop, between its check and its INSERT
    worker,         \* the add_articles_batch call of the worker thread, statement by statement
    fetched_categories, \* committed table fetched_categories: category_code, last_fetched
    hours,          \* datetime.now() as the fetcher reads it, in hours
    fetcher,        \* the fetch_all_categories call in progress, statement by statement
    search_results, \* the article objects of the results table: id, is_saved, is_viewed
    notes_popup     \* the article whose NotesPopupScreen is open, or NoPopup

vars == <<db, conn, pc, retention_days, ids_to_delete, deleted_count, now, last, observed,
          ui, worker, fetched_categories, hours, fetcher,
          search_results, notes_popup>>

----------------------------------------------------------------------------
(* Bounds and input domains *)

ArticleIds == {"a1", "a2"}
TagNames == {"x"}
MoreTagNames == {"x", "y"}      \* the tag names of the specification of the tag tables
CategoryCodes == {"cs.AI", "hep-ex"}
Paths == {"n1"}
Retentions == {0, 2}
NowInit == 10
MaxDays == 1
MaxTagId == 2
MaxBatch == 2
HourInit == 10
MaxHours == 7

\* Python's None: arxiv.Result.pdf_url of an entry without a pdf link
None == "None"

\* the records a fetch can deliver: old and recent publications, one id in two
\* versions, and one entry without pdf link
Records ==
    {[id |-> "a1", published |-> 8, categories |-> <<"cs.AI">>, pdf_url |-> "pdf"],
     [id |-> "a1", published |-> 11, categories |-> <<"hep-ex", "cs.AI">>, pdf_url |-> "pdf"],
     [id |-> "a2", published |-> 8, categories |-> <<"hep-ex", "cs.AI">>, pdf_url |-> "pdf"],
     [id |-> "a2", published |-> 11, categories |-> <<"cs.AI">>, pdf_url |-> None]}

RECURSIVE SeqsUpTo(_, _)
SeqsUpTo(S, n) ==
    IF n = 0 THEN {<<>>}
    ELSE LET shorter == SeqsUpTo(S, n - 1)
         IN  shorter \cup {Append(q, e) : q \in {p \in shorter : Len(p) = n - 1}, e \in S}

Batches == SeqsUpTo(Records, MaxBatch)

----------------------------------------------------------------------------
(* SQL values *)

SqlNull == -1           \* NULL in an INTEGER column
NullText == <<>>        \* NULL in a timestamp TEXT column
NullPath == "NULL"      \* NULL in notes_file_path

\* datetime.isoformat(): fixed-width decimal text, most significant digit first
IsoFormat(t) == <<t \div 10, t % 10>>

\* SQLite's comparison of two TEXT values: byte by byte, a proper prefix is smaller
TextLess(a, b) ==
    LET n == IF Len(a) < Len(b) THEN Len(a) ELSE Len(b)
    IN  \/ \E i \in 1..n : a[i] < b[i] /\ \A j \in 1..(i - 1) : a[j] = b[j]
        \/ Len(a) < Len(b) /\ \A j \in 1..n : a[j] = b[j]

TextGeq(a, b) == ~TextLess(a, b)

\* json_each(a.categories): the elements of the stored array
JsonEach(categories) == {categories[i] : i \in DOMAIN categories}

EmptyDb ==
    [articles |-> {}, article_status |-> {}, tags |-> {}, article_tags |-> {}, tag_seq |-> 0]

NoCall == [op |-> "none", id |-> "", ret |-> -1, exc |-> ""]

Returned(op, id, ret) == [op |-> op, id |-> id, ret |-> ret, exc |-> ""]
Raised(op, id, exc) == [op |-> op, id |-> id, ret |-> -1, exc |-> exc]

Bool(b) == IF b THEN 1 ELSE 0

----------------------------------------------------------------------------
(* Rows and joins *)

ArticleRow(article) ==
    [id |-> article.id,
     published_date |-> IsoFormat(article.published),
     categories |-> article.categories,
     pdf_url |-> article.pdf_url,
     notes_file_path |-> NullPath]

\* pdf_url TEXT NOT NULL: binding None makes the INSERT fail with IntegrityError
NotNullViolated(article) == article.pdf_url = None

DefaultStatus(article_id) ==
    [article_id |-> article_id, is_saved |-> 0, is_viewed |-> 0,
     saved_at |-> NullText, viewed_at |-> NullText]

\* the all-NULL status row a LEFT JOIN supplies for an article without status
NullStatus ==
    [article_id |-> "NULL", is_saved |-> SqlNull, is_viewed |-> SqlNull,
     saved_at |-> NullText, viewed_at |-> NullText]

StatusRows(d, article_id) == {s \in d.article_status : s.article_id = article_id}

\* FROM articles a LEFT JOIN article_status s ON a.id = s.article_id
LeftJoinStatus(d) ==
    {j \in [a : d.articles, s : d.article_status \cup {NullStatus}] :
        \/ j.s.article_id = j.a.id
        \/ j.s = NullStatus /\ StatusRows(d, j.a.id) = {}}

\* FROM articles a INNER JOIN article_status s ON a.id = s.article_id
InnerJoinStatus(d) ==
    {j \in [a : d.articles, s : d.article_status] : j.s.article_id = j.a.id}

\* LEFT JOIN (SELECT DISTINCT article_id FROM article_tags) at ... CASE WHEN at.article_id IS NOT NULL
HasTags(d, article_id) == article_id \in {at.article_id : at \in d.article_tags}

Res(d, ret) == [db |-> d, ret |-> ret, exc |-> ""]
Exc(d, exc) == [db |-> d, ret |-> -1, exc |-> exc]

----------------------------------------------------------------------------
(* Ingestion *)

article_exists(d, article_id) == \E a \in d.articles : a.id = article_id

\* the `with` block of add_article: the first INSERT violates the primary key of
\* articles when the id is stored, the second that of article_status when a status row
\* is already there; the exception leaves the `with` block, which rolls back, and
\* add_article does not catch it
add_article_insert(d, article) ==
    IF article_exists(d, article.id) \/ NotNullViolated(article) THEN Exc(d, "IntegrityError")
    ELSE IF StatusRows(d, article.id) # {} THEN Exc(d, "IntegrityError")
    ELSE Res([d EXCEPT !.articles = @ \cup {ArticleRow(article)},
                       !.article_status = @ \cup {DefaultStatus(article.id)}], 1)

\* add_article when no other connection writes between its check and its INSERT
do_add_article(d, article) ==
    IF article_exists(d, article.id) THEN Res(d, 0)
    ELSE add_article_insert(d, article)

\* the try block with a rollback in its except clause
batch_try_rollback(d, article) ==
    LET d1 == [d EXCEPT !.articles = @ \cup {ArticleRow(article)}]
        d2 == [d1 EXCEPT !.article_status = @ \cup {DefaultStatus(article.id)}]
    IN  IF article_exists(d, article.id) \/ NotNullViolated(article) THEN Res(db, 0)
        ELSE IF StatusRows(d1, article.id) # {} THEN Res(db, 0)
        ELSE Res(d2, 1)

\* the try block of add_articles_batch: an IntegrityError of either INSERT is caught
\* and the loop continues, keeping what the first INSERT wrote; the result is what
\* the record adds to added_count
batch_try(d, article) ==
    LET d1 == [d EXCEPT !.articles = @ \cup {ArticleRow(article)}]
        d2 == [d1 EXCEPT !.article_status = @ \cup {DefaultStatus(article.id)}]
    IN  IF article_exists(d, article.id) \/ NotNullViolated(article) THEN Res(d, 0)
        ELSE IF StatusRows(d1, article.id) # {} THEN Res(d1, 0)
        ELSE Res(d2, 1)

\* add_articles_batch: one connection, one commit at the end
RECURSIVE batch_loop(_, _, _, _)
batch_loop(d, articles, i, added_count) ==
    IF i > Len(articles) THEN Res(d, added_count)
    ELSE IF article_exists(d, articles[i].id)
    THEN batch_loop(d, articles, i + 1, added_count)
    ELSE LET r == batch_try(d, articles[i])
         IN  batch_loop(r.db, articles, i + 1, added_count + r.ret)

do_add_articles_batch(d, articles) == batch_loop(d, articles, 1, 0)

----------------------------------------------------------------------------
(* Status management *)

\* mark_article_viewed without `AND is_viewed = 0` in its WHERE clause
do_mark_article_viewed_again(d, article_id, t) ==
    Res([d EXCEPT !.article_status =
            {IF s.article_id = article_id
             THEN [s EXCEPT !.is_viewed = 1, !.viewed_at = IsoFormat(t)]
             ELSE s : s \in @}], -1)

do_mark_article_viewed(d, article_id, t) ==
    Res([d EXCEPT !.article_status =
            {IF s.article_id = article_id /\ s.is_viewed = 0
             THEN [s EXCEPT !.is_viewed = 1, !.viewed_at = IsoFormat(t)]
             ELSE s : s \in @}], -1)

do_mark_article_saved(d, article_id, t) ==
    LET rows == StatusRows(d, article_id)
    IN  IF rows = {}
        THEN Res([d EXCEPT !.article_status = @ \cup
                    {[article_id |-> article_id, is_saved |-> 1, is_viewed |-> 0,
                      saved_at |-> IsoFormat(t), viewed_at |-> NullText]}], 1)
        ELSE IF \E s \in rows : s.is_saved = 1 THEN Res(d, 0)
        ELSE Res([d EXCEPT !.article_status =
                    {IF s.article_id = article_id
                     THEN [s EXCEPT !.is_saved = 1, !.saved_at = IsoFormat(t)]
                     ELSE s : s \in @}], 1)

\* mark_article_unsaved that reports whether a status row exists
do_mark_article_unsaved_any_row(d, article_id) ==
    LET hit == {s \in d.article_status : s.article_id = article_id}
    IN  Res([d EXCEPT !.article_status =
                {IF s \in hit THEN [s EXCEPT !.is_saved = 0, !.saved_at = NullText] ELSE s : s \in @}],
            Bool(Cardinality(hit) > 0))

do_mark_article_unsaved(d, article_id) ==
    LET hit == {s \in d.article_status : s.article_id = article_id /\ s.is_saved = 1}
    IN  Res([d EXCEPT !.article_status =
                {IF s \in hit THEN [s EXCEPT !.is_saved = 0, !.saved_at = NullText] ELSE s : s \in @}],
            Bool(Cardinality(hit) > 0))

do_mark_article_unread(d, article_id) ==
    LET hit == {s \in d.article_status : s.article_id = article_id /\ s.is_viewed = 1}
    IN  Res([d EXCEPT !.article_status =
                {IF s \in hit THEN [s EXCEPT !.is_viewed = 0, !.viewed_at = NullText] ELSE s : s \in @}],
            Bool(Cardinality(hit) > 0))

\* migrate_from_text_files: mark_article_saved for every id of the saved file, then
\* mark_article_viewed for every id found behind "abs/" in the viewed file; whether
\* the ids are stored is not looked at.  The result is stats["saved_migrated"].
RECURSIVE migrate_saved(_, _, _, _)
migrate_saved(d, saved_ids, t, saved_migrated) ==
    IF saved_ids = {} THEN Res(d, saved_migrated)
    ELSE LET article_id == CHOOSE id \in saved_ids : TRUE
             r == do_mark_article_saved(d, article_id, t)
         IN  migrate_saved(r.db, saved_ids \ {article_id}, t, saved_migrated + r.ret)

RECURSIVE migrate_viewed(_, _, _)
migrate_viewed(d, viewed_ids, t) ==
    IF viewed_ids = {} THEN d
    ELSE LET article_id == CHOOSE id \in viewed_ids : TRUE
         IN  migrate_viewed(do_mark_article_viewed(d, article_id, t).db, viewed_ids \ {article_id}, t)

do_migrate_from_text_files(d, saved_ids, viewed_ids, t) ==
    LET r == migrate_saved(d, saved_ids, t, 0)
    IN  Res(migrate_viewed(r.db, viewed_ids, t), r.ret)

----------------------------------------------------------------------------
(* Tags *)

\* add_tag: INSERT, or on the UNIQUE(name) violation the id of the existing row;
\* AUTOINCREMENT never reuses an id
do_add_tag(d, name) ==
    IF \E t \in d.tags : t.name = name
    THEN Res(d, (CHOOSE t \in d.tags : t.name = name).id)
    ELSE Res([d EXCEPT !.tags = @ \cup {[id |-> d.tag_seq + 1, name |-> name]},
                       !.tag_seq = @ + 1], d.tag_seq + 1)

\* add_article_tag with a plain INSERT OR REPLACE that resets the viewed columns
do_add_article_tag_reset_viewed(d, article_id, tag_name, t) ==
    LET d1 == do_add_tag(d, tag_name).db
        link == [article_id |-> article_id, tag_id |-> do_add_tag(d, tag_name).ret]
    IN  IF link \in d1.article_tags THEN Res(d1, 0)
        ELSE Res([d1 EXCEPT !.article_tags = @ \cup {link},
                            !.article_status = (@ \ StatusRows(d1, article_id)) \cup
                                {[article_id |-> article_id, is_saved |-> 1, is_viewed |-> 0,
                                  saved_at |-> IsoFormat(t), viewed_at |-> NullText]}], 1)

\* add_article_tag: add_tag commits on its own connection; then the link and the
\* INSERT OR REPLACE of the status row are one transaction, skipped as a whole when
\* the link violates the primary key (article_id, tag_id)
do_add_article_tag(d, article_id, tag_name, t) ==
    LET d1 == do_add_tag(d, tag_name).db
        tag_id == do_add_tag(d, tag_name).ret
        link == [article_id |-> article_id, tag_id |-> tag_id]
        old == StatusRows(d1, article_id)
        is_viewed == IF old = {} \/ (\E s \in old : s.is_viewed = SqlNull)
                     THEN 0 ELSE (CHOOSE s \in old : TRUE).is_viewed
        viewed_at == IF old = {} THEN NullText ELSE (CHOOSE s \in old : TRUE).viewed_at
    IN  IF link \in d1.article_tags THEN Res(d1, 0)
        ELSE Res([d1 EXCEPT !.article_tags = @ \cup {link},
                            !.article_status = (@ \ old) \cup
                                {[article_id |-> article_id, is_saved |-> 1, is_viewed |-> is_viewed,
                                  saved_at |-> IsoFormat(t), viewed_at |-> viewed_at]}], 1)

\* remove_article_tag that also deletes the tag when it removes its last link
do_remove_article_tag_and_orphan(d, article_id, tag_name) ==
    LET hit == {at \in d.article_tags :
                    /\ at.article_id = article_id
                    /\ \E t \in d.tags : t.name = tag_name /\ t.id = at.tag_id}
        left == d.article_tags \ hit
    IN  Res([d EXCEPT !.article_tags = left,
                      !.tags = {t \in @ : t.name # tag_name \/ t.id \in {at.tag_id : at \in left}}],
            Bool(Cardinality(hit) > 0))

do_remove_article_tag(d, article_id, tag_name) ==
    LET hit == {at \in d.article_tags :
                    /\ at.article_id = article_id
                    /\ \E t \in d.tags : t.name = tag_name /\ t.id = at.tag_id}
    IN  Res([d EXCEPT !.article_tags = @ \ hit], Bool(Cardinality(hit) > 0))

\* the DELETE FROM tags without its WHERE clause
do_cleanup_orphan_tags_all(d) == Res([d EXCEPT !.tags = {}], Cardinality(d.tags))

do_cleanup_orphan_tags(d) ==
    LET hit == {t \in d.tags : t.id \notin {at.tag_id : at \in d.article_tags}}
    IN  Res([d EXCEPT !.tags = @ \ hit], Cardinality(hit))

----------------------------------------------------------------------------
(* Notes *)

\* set_notes_path without the `if cursor.rowcount > 0` around the status statement
do_set_notes_path_always_promote(d, article_id, path, t) ==
    LET hit == {a \in d.articles : a.id = article_id}
        old == StatusRows(d, article_id)
        is_viewed == IF old = {} THEN 0 ELSE (CHOOSE s \in old : TRUE).is_viewed
        viewed_at == IF old = {} THEN NullText ELSE (CHOOSE s \in old : TRUE).viewed_at
    IN  Res([d EXCEPT !.articles =
                    {IF a \in hit THEN [a EXCEPT !.notes_file_path = path] ELSE a : a \in @},
                      !.article_status = (@ \ old) \cup
                    {[article_id |-> article_id, is_saved |-> 1, is_viewed |-> is_viewed,
                      saved_at |-> IsoFormat(t), viewed_at |-> viewed_at]}],
            Bool(Cardinality(hit) > 0))

do_set_notes_path(d, article_id, path, t) ==
    LET hit == {a \in d.articles : a.id = article_id}
        old == StatusRows(d, article_id)
        is_viewed == IF old = {} \/ (\E s \in old : s.is_viewed = SqlNull)
                     THEN 0 ELSE (CHOOSE s \in old : TRUE).is_viewed
        viewed_at == IF old = {} THEN NullText ELSE (CHOOSE s \in old : TRUE).viewed_at
        d1 == [d EXCEPT !.articles =
                  {IF a \in hit THEN [a EXCEPT !.notes_file_path = path] ELSE a : a \in @}]
    IN  IF Cardinality(hit) > 0
        THEN Res([d1 EXCEPT !.article_status = (@ \ old) \cup
                    {[article_id |-> article_id, is_saved |-> 1, is_viewed |-> is_viewed,
                      saved_at |-> IsoFormat(t), viewed_at |-> viewed_at]}], 1)
        ELSE Res(d1, 0)

do_clear_notes_path(d, article_id) ==
    LET hit == {a \in d.articles : a.id = article_id}
    IN  Res([d EXCEPT !.articles =
                {IF a \in hit THEN [a EXCEPT !.notes_file_path = NullPath] ELSE a : a \in @}],
            Bool(Cardinality(hit) > 0))

----------------------------------------------------------------------------
(* Queries and counters.  A result is the set of its rows; a row of a join is   *)
(* the combination of the table rows it was built from.                         *)

NoRetention == -1       \* feed_feed_retention_days = None

\* the retention filter without the two is_viewed alternatives
feed_retention_filter_age_only(feed_retention_days, t, j) ==
    IF feed_retention_days = NoRetention THEN TRUE
    ELSE TextGeq(j.a.published_date, IsoFormat(t - feed_retention_days))

\* _get_feed_retention_filter, applied to one row of the join
feed_retention_filter(feed_retention_days, t, j) ==
    IF feed_retention_days = NoRetention THEN TRUE
    ELSE \/ TextGeq(j.a.published_date, IsoFormat(t - feed_retention_days))
         \/ j.s.is_viewed = SqlNull
         \/ j.s.is_viewed = 0

InCategory(a, category) == \E v \in JsonEach(a.categories) : v = category

Unviewed(s) == s.is_viewed = SqlNull \/ s.is_viewed = 0

\* a result row: the joined table rows it was built from (so that two rows with
\* equal columns stay two rows) and the derived has_tags column
ResultRow(j, d) == [a |-> j.a, s |-> j.s, has_tags |-> Bool(HasTags(d, j.a.id))]

get_all_articles(d, feed_retention_days, t) ==
    {ResultRow([j EXCEPT !.s.is_saved = IF @ = SqlNull THEN 0 ELSE @,
                         !.s.is_viewed = IF @ = SqlNull THEN 0 ELSE @], d) :
        j \in {k \in LeftJoinStatus(d) : feed_retention_filter(feed_retention_days, t, k)}}

get_articles_by_category(d, category, feed_retention_days, t) ==
    {ResultRow(j, d) :
        j \in {k \in LeftJoinStatus(d) :
                 InCategory(k.a, category) /\ feed_retention_filter(feed_retention_days, t, k)}}

\* the library listing with the retention filter of the feed (window 0) applied
get_saved_articles_in_retention(d) ==
    {ResultRow(j, d) :
        j \in {k \in InnerJoinStatus(d) : k.s.is_saved = 1 /\ feed_retention_filter(0, now, k)}}

get_saved_articles(d) ==
    {ResultRow(j, d) : j \in {k \in InnerJoinStatus(d) : k.s.is_saved = 1}}

get_unread_articles(d) ==
    {ResultRow(j, d) : j \in {k \in LeftJoinStatus(d) : Unviewed(k.s)}}

\* articles a LEFT JOIN article_status s INNER JOIN article_tags at INNER JOIN tags t
JoinTags(d) ==
    {j \in [a : d.articles, s : d.article_status \cup {NullStatus}, at : d.article_tags, t : d.tags] :
        /\ [a |-> j.a, s |-> j.s] \in LeftJoinStatus(d)
        /\ j.at.article_id = j.a.id
        /\ j.at.tag_id = j.t.id}

get_articles_by_tag(d, tag_name) ==
    {[a |-> j.a, s |-> j.s, at |-> j.at, t |-> j.t, has_tags |-> 1] :
        j \in {k \in JoinTags(d) : k.t.name = tag_name}}

\* get_all_tags: tags t LEFT JOIN article_tags at GROUP BY t.id with COUNT(at.article_id)
get_all_tags(d) ==
    {[id |-> t.id, name |-> t.name,
      article_count |-> Cardinality({at \in d.article_tags : at.tag_id = t.id})] : t \in d.tags}

\* the value of the ORDER BY column in a result row
OrderKey(r, column) == IF column = "s.saved_at" THEN r.s.saved_at ELSE r.a.published_date

\* ORDER BY column DESC, then fetchall(): the rows in a sequence in which no row comes
\* before a row with a larger key; SQLite leaves the order of rows with equal keys
\* open, so a query has every such sequence as a possible result
OrderByDesc(rows, column) ==
    {q \in [1..Cardinality(rows) -> rows] :
        /\ \A r \in rows : \E i \in DOMAIN q : q[i] = r
        /\ \A i, j \in DOMAIN q :
                i < j => ~TextLess(OrderKey(q[i], column), OrderKey(q[j], column))}

\* ORDER BY a.published_date DESC
get_all_articles_fetchall(d, feed_retention_days, t) ==
    OrderByDesc(get_all_articles(d, feed_retention_days, t), "a.published_date")

get_articles_by_category_fetchall(d, category, feed_retention_days, t) ==
    OrderByDesc(get_articles_by_category(d, category, feed_retention_days, t), "a.published_date")

get_unread_articles_fetchall(d) == OrderByDesc(get_unread_articles(d), "a.published_date")

get_articles_by_tag_fetchall(d, tag_name) ==
    OrderByDesc(get_articles_by_tag(d, tag_name), "a.published_date")

\* ORDER BY s.saved_at DESC
get_saved_articles_fetchall(d) == OrderByDesc(get_saved_articles(d), "s.saved_at")

get_saved_articles_count(d) == Cardinality({s \in d.article_status : s.is_saved = 1})

get_feed_articles_count(d, feed_retention_days, t) ==
    Cardinality({j \in LeftJoinStatus(d) : feed_retention_filter(feed_retention_days, t, j)})

\* the unread count taken from article_status alone, as get_saved_articles_count is
get_unread_count_status_only(d) == Cardinality({s \in d.article_status : s.is_viewed = 0})

get_unread_count(d) == Cardinality({j \in LeftJoinStatus(d) : Unviewed(j.s)})

get_unread_count_by_category(d, category, feed_retention_days, t) ==
    Cardinality({j \in LeftJoinStatus(d) :
                    /\ InCategory(j.a, category)
                    /\ Unviewed(j.s)
                    /\ feed_retention_filter(feed_retention_days, t, j)})

get_unread_count_by_tag(d, tag_name) ==
    Cardinality({j \in JoinTags(d) : j.t.name = tag_name /\ Unviewed(j.s)})

----------------------------------------------------------------------------
(* cleanup_old_unsaved_articles, statement by statement *)

\* the candidate SELECT without the is_saved condition
article_ids_to_delete_any_status(d, cutoff_date) ==
    {a.id : a \in {k \in d.articles : TextLess(k.published_date, cutoff_date)}}

\* SELECT a.id ... WHERE a.published_date < ? AND (s.is_saved IS NULL OR s.is_saved = 0)
article_ids_to_delete(d, cutoff_date) ==
    {j.a.id : j \in {k \in LeftJoinStatus(d) :
                        /\ TextLess(k.a.published_date, cutoff_date)
                        /\ (k.s.is_saved = SqlNull \/ k.s.is_saved = 0)}}

\* the purge without its DELETE FROM article_tags
delete_article_tags_skipped(c, ids) == c

delete_article_tags(c, ids) == [c EXCEPT !.article_tags = {at \in @ : at.article_id \notin ids}]
delete_article_status(c, ids) == [c EXCEPT !.article_status = {s \in @ : s.article_id \notin ids}]
delete_articles(c, ids) == [c EXCEPT !.articles = {a \in @ : a.id \notin ids}]

\* the connection of cleanup_old_unsaved_articles holds SQLite's write lock from its
\* first DELETE until its `with` block commits or rolls back
WriteLocked == pc \in {"delete_status", "delete_articles", "cleanup_orphans"}

\* one connection shared by all methods
get_connection_shared(method) == "shared"

\* get_connection: every call opens a new connection, here named after its caller
get_connection(method) == method

\* a connection cannot write while another connection holds the write lock: the
\* statement waits for the timeout of sqlite3.connect and raises OperationalError
database_is_locked(connection) ==
    WriteLocked /\ connection # get_connection("cleanup_old_unsaved_articles")

----------------------------------------------------------------------------
(* The state machine *)

NoConn == EmptyDb

NoArticle == [id |-> "", published |-> 0, categories |-> <<>>, pdf_url |-> None]

\* no add_article call in progress on the event loop
UiIdle == [pc |-> "idle", article |-> NoArticle, ret |-> -1, exc |-> ""]

\* no add_articles_batch call in progress on the worker thread; `caught` are the
\* positions of the records whose try block has ended in the except clause
WorkerIdle ==
    [pc |-> "idle", articles |-> <<>>, i |-> 0, added_count |-> 0,
     in_transaction |-> FALSE, conn |-> NoConn, caught |-> {}, ret |-> -1]

\* no NotesPopupScreen on the screen stack
NoPopup == ""

\* no fetch_all_categories call in progress; `raised` are the positions of the keys
\* whose fetch has ended in the except clause
FetcherIdle ==
    [pc |-> "idle", force |-> FALSE, i |-> 0, articles |-> <<>>, added_count |-> -1,
     raised |-> {}]

InitObserving(methods) ==
    /\ db = EmptyDb
    /\ conn = NoConn
    /\ pc = "idle"
    /\ retention_days = NoRetention
    /\ ids_to_delete = {}
    /\ deleted_count = 0
    /\ now = NowInit
    /\ last = NoCall
    /\ observed = methods
    /\ ui = UiIdle
    /\ worker = WorkerIdle
    /\ fetched_categories = {}
    /\ hours = HourInit
    /\ fetcher = FetcherIdle
    /\ search_results = {}
    /\ notes_popup = NoPopup

Init == InitObserving({})

Observe(call) == IF call.op \in observed THEN call ELSE NoCall

\* The methods are called one at a time: a call starts when no other call is in
\* progress, runs on its own connection and commits (or rolls back) before it returns
Call(op, article_id, r) ==
    /\ pc = "idle"
    /\ db' = r.db
    /\ last' = Observe([op |-> op, id |-> article_id, ret |-> r.ret, exc |-> r.exc])
    /\ UNCHANGED <<conn, pc, retention_days, ids_to_delete, deleted_count, now, observed, ui, worker,
                   fetched_categories, hours, fetcher, search_results, notes_popup>>

add_article(article) == Call("add_article", article.id, do_add_article(db, article))

add_articles_batch(articles) == Call("add_articles_batch", "", do_add_articles_batch(db, articles))

mark_article_viewed(article_id) ==
    Call("mark_article_viewed", article_id, do_mark_article_viewed(db, article_id, now))

mark_article_saved(article_id) ==
    Call("mark_article_saved", article_id, do_mark_article_saved(db, article_id, now))

mark_article_unsaved(article_id) ==
    Call("mark_article_unsaved", article_id, do_mark_article_unsaved(db, article_id))

mark_article_unread(article_id) ==
    Call("mark_article_unread", article_id, do_mark_article_unread(db, article_id))

migrate_from_text_files(saved_ids, viewed_ids) ==
    Call("migrate_from_text_files", "",
         do_migrate_from_text_files(db, saved_ids, viewed_ids, now))

add_article_tag(article_id, tag_name) ==
    /\ (\E t \in db.tags : t.name = tag_name) \/ db.tag_seq < MaxTagId
    /\ Call("add_article_tag", article_id, do_add_article_tag(db, article_id, tag_name, now))

remove_article_tag(article_id, tag_name) ==
    Call("remove_article_tag", article_id, do_remove_article_tag(db, article_id, tag_name))

cleanup_orphan_tags == Call("cleanup_orphan_tags", "", do_cleanup_orphan_tags(db))

set_notes_path(article_id, path) ==
    Call("set_notes_path", article_id, do_set_notes_path(db, article_id, path, now))

clear_notes_path(article_id) ==
    Call("clear_notes_path", article_id, do_clear_notes_path(db, article_id))

\* cleanup_old_unsaved_articles up to `if not article_ids_to_delete: return 0`;
\* the SELECT takes no write lock
cleanup_select(days) ==
    /\ pc = "idle"
    /\ LET ids == article_ids_to_delete(db, IsoFormat(now - days))
       IN  IF ids = {}
           THEN /\ last' = Observe(Returned("cleanup_old_unsaved_articles", "", 0))
                /\ UNCHANGED <<pc, retention_days, ids_to_delete>>
           ELSE /\ pc' = "delete_tags"
                /\ retention_days' = days
                /\ ids_to_delete' = ids
                /\ last' = NoCall
    /\ UNCHANGED <<db, conn, deleted_count, now, observed, ui, worker, fetched_categories, hours, fetcher,
                   search_results, notes_popup>>

\* DELETE FROM article_tags: the connection's transaction begins on the committed tables
cleanup_delete_tags ==
    /\ pc = "delete_tags"
    /\ conn' = delete_article_tags(db, ids_to_delete)
    /\ pc' = "delete_status"
    /\ UNCHANGED <<db, retention_days, ids_to_delete, deleted_count, now, last, observed, ui, worker,
                   fetched_categories, hours, fetcher, search_results, notes_popup>>

cleanup_delete_status ==
    /\ pc = "delete_status"
    /\ conn' = delete_article_status(conn, ids_to_delete)
    /\ pc' = "delete_articles"
    /\ UNCHANGED <<db, retention_days, ids_to_delete, deleted_count, now, last, observed, ui, worker,
                   fetched_categories, hours, fetcher, search_results, notes_popup>>

cleanup_delete_articles ==
    /\ pc = "delete_articles"
    /\ conn' = delete_articles(conn, ids_to_delete)
    /\ deleted_count' = Cardinality(conn.articles) - Cardinality(conn'.articles)
    /\ pc' = "cleanup_orphans"
    /\ UNCHANGED <<db, retention_days, ids_to_delete, now, last, observed, ui, worker,
                   fetched_categories, hours, fetcher, search_results, notes_popup>>

\* self.cleanup_orphan_tags() inside the open transaction, then the end of the `with`
\* block: commit, or rollback when the call raised
cleanup_finish ==
    /\ pc = "cleanup_orphans"
    /\ IF database_is_locked(get_connection("cleanup_orphan_tags"))
       THEN /\ db' = db
            /\ last' = Observe(Raised("cleanup_old_unsaved_articles", "", "OperationalError"))
       ELSE /\ db' = do_cleanup_orphan_tags(conn).db
            /\ last' = Observe(Returned("cleanup_old_unsaved_articles", "", deleted_count))
    /\ pc' = "idle"
    /\ conn' = NoConn
    /\ retention_days' = NoRetention
    /\ ids_to_delete' = {}
    /\ deleted_count' = 0
    /\ UNCHANGED <<now, observed, ui, worker, fetched_categories, hours, fetcher, search_results, notes_popup>>

\* a day passes
Tick ==
    /\ pc = "idle"
    /\ now < NowInit + MaxDays
    /\ now' = now + 1
    /\ last' = NoCall
    /\ UNCHANGED <<db, conn, pc, retention_days, ids_to_delete, deleted_count, observed, ui, worker,
                   fetched_categories, hours, fetcher, search_results, notes_popup>>

Next ==
    \/ \E article \in Records : add_article(article)
    \/ \E articles \in Batches : add_articles_batch(articles)
    \/ \E article_id \in ArticleIds : mark_article_viewed(article_id)
    \/ \E article_id \in ArticleIds : mark_article_saved(article_id)
    \/ \E article_id \in ArticleIds : mark_article_unsaved(article_id)
    \/ \E article_id \in ArticleIds : mark_article_unread(article_id)
    \/ \E saved_ids \in SUBSET ArticleIds, viewed_ids \in SUBSET ArticleIds :
            migrate_from_text_files(saved_ids, viewed_ids)
    \/ \E article_id \in ArticleIds, tag_name \in TagNames : add_article_tag(article_id, tag_name)
    \/ \E article_id \in ArticleIds, tag_name \in TagNames : remove_article_tag(article_id, tag_name)
    \/ cleanup_orphan_tags
    \/ \E article_id \in ArticleIds, path \in Paths : set_notes_path(article_id, path)
    \/ \E article_id \in ArticleIds : clear_notes_path(article_id)
    \/ \E days \in Retentions : cleanup_select(days)
    \/ cleanup_delete_tags
    \/ cleanup_delete_status
    \/ cleanup_delete_articles
    \/ cleanup_finish
    \/ Tick

----------------------------------------------------------------------------
(* Concurrent ingestion: the event loop calls add_article (action_save_article) *)
(* while a worker thread calls add_articles_batch.  A connection reads the      *)
(* committed tables and, inside its transaction, its own writes; the            *)
(* transaction of the batch begins with its first INSERT and holds SQLite's     *)
(* write lock until the commit, and a writer on another connection waits.       *)

\* add_article up to `if self.article_exists(article_id): return False`
add_article_check(article) ==
    /\ ui.pc = "idle"
    /\ ui' = IF article_exists(db, article.id)
             THEN [pc |-> "done", article |-> article, ret |-> 0, exc |-> ""]
             ELSE [pc |-> "insert", article |-> article, ret |-> -1, exc |-> ""]
    /\ UNCHANGED <<db, conn, pc, retention_days, ids_to_delete, deleted_count, now, last,
                   observed, worker, fetched_categories, hours, fetcher,
                   search_results, notes_popup>>

\* the `with` block of add_article, once the write lock is free
add_article_with_block ==
    /\ ui.pc = "insert"
    /\ ~worker.in_transaction
    /\ LET r == add_article_insert(db, ui.article)
       IN  /\ db' = r.db
           /\ ui' = [ui EXCEPT !.pc = "done", !.ret = r.ret, !.exc = r.exc]
    /\ UNCHANGED <<conn, pc, retention_days, ids_to_delete, deleted_count, now, last,
                   observed, worker, fetched_categories, hours, fetcher,
                   search_results, notes_popup>>

add_articles_batch_begin(articles) ==
    /\ worker.pc = "idle"
    /\ worker' = [WorkerIdle EXCEPT !.pc = "select", !.articles = articles, !.i = 1]
    /\ UNCHANGED <<db, conn, pc, retention_days, ids_to_delete, deleted_count, now, last,
                   observed, ui, fetched_categories, hours, fetcher, search_results, notes_popup>>

\* what the connection of the batch reads
WorkerView == IF worker.in_transaction THEN worker.conn ELSE db

\* SELECT 1 FROM articles WHERE id = ? ... continue
add_articles_batch_select ==
    /\ worker.pc = "select"
    /\ worker.i <= Len(worker.articles)
    /\ worker' = IF article_exists(WorkerView, worker.articles[worker.i].id)
                 THEN [worker EXCEPT !.i = @ + 1]
                 ELSE [worker EXCEPT !.pc = "insert"]
    /\ UNCHANGED <<db, conn, pc, retention_days, ids_to_delete, deleted_count, now, last,
                   observed, ui, fetched_categories, hours, fetcher, search_results, notes_popup>>

\* the try block for articles[i]
add_articles_batch_try ==
    /\ worker.pc = "insert"
    /\ LET r == batch_try(WorkerView, worker.articles[worker.i])
       IN  worker' = [worker EXCEPT !.pc = "select", !.i = @ + 1, !.in_transaction = TRUE,
                                    !.conn = r.db, !.added_count = @ + r.ret,
                                    !.caught = IF r.ret = 0 THEN @ \cup {worker.i} ELSE @]
    /\ UNCHANGED <<db, conn, pc, retention_days, ids_to_delete, deleted_count, now, last,
                   observed, ui, fetched_categories, hours, fetcher, search_results, notes_popup>>

\* the end of the `with` block and `return added_count`
add_articles_batch_commit ==
    /\ worker.pc = "select"
    /\ worker.i > Len(worker.articles)
    /\ db' = WorkerView
    /\ worker' = [worker EXCEPT !.pc = "done", !.in_transaction = FALSE, !.conn = NoConn,
                                !.ret = worker.added_count]
    /\ UNCHANGED <<conn, pc, retention_days, ids_to_delete, deleted_count, now, last,
                   observed, ui, fetched_categories, hours, fetcher, search_results, notes_popup>>

NextRace ==
    \/ \E article \in Records : add_article_check(article)
    \/ add_article_with_block
    \/ \E articles \in Batches : add_articles_batch_begin(articles)
    \/ add_articles_batch_select
    \/ add_articles_batch_try
    \/ add_articles_batch_commit

\* one add_article and one add_articles_batch on an empty store, in every interleaving
SpecRace == Init /\ [][NextRace]_vars

----------------------------------------------------------------------------
(* The tag tables with two tag names: ingestion, viewing, unsaving, tagging,     *)
(* untagging and the orphan cleanup, called in every order.                      *)

NextTags ==
    \/ \E article \in Records : add_article(article)
    \/ \E article_id \in ArticleIds : mark_article_viewed(article_id)
    \/ \E article_id \in ArticleIds : mark_article_unsaved(article_id)
    \/ \E article_id \in ArticleIds, tag_name \in MoreTagNames : add_article_tag(article_id, tag_name)
    \/ \E article_id \in ArticleIds, tag_name \in MoreTagNames :
            remove_article_tag(article_id, tag_name)
    \/ cleanup_orphan_tags

SpecTags == InitObserving({"cleanup_orphan_tags", "remove_article_tag"}) /\ [][NextTags]_vars

----------------------------------------------------------------------------
(* The purge next to calls on other connections (another thread or process on  *)
(* the same database file).  The candidate SELECT of the purge opens no         *)
(* transaction; the write lock is taken by its first DELETE.  A call on another *)
(* connection writes and commits whenever the lock is free.                     *)

ConcurrentCall(op, article_id, r) ==
    /\ ~WriteLocked
    /\ db' = r.db
    /\ last' = Observe([op |-> op, id |-> article_id, ret |-> r.ret, exc |-> r.exc])
    /\ UNCHANGED <<conn, pc, retention_days, ids_to_delete, deleted_count, now, observed, ui, worker,
                   fetched_categories, hours, fetcher, search_results, notes_popup>>

NextPurgeRace ==
    \/ \E article \in Records :
            ConcurrentCall("add_article", article.id, do_add_article(db, article))
    \/ \E article_id \in ArticleIds :
            ConcurrentCall("mark_article_saved", article_id,
                           do_mark_article_saved(db, article_id, now))
    \/ \E article_id \in ArticleIds, tag_name \in TagNames :
            /\ (\E t \in db.tags : t.name = tag_name) \/ db.tag_seq < MaxTagId
            /\ ConcurrentCall("add_article_tag", article_id,
                              do_add_article_tag(db, article_id, tag_name, now))
    \/ \E article_id \in ArticleIds, path \in Paths :
            ConcurrentCall("set_notes_path", article_id,
                           do_set_notes_path(db, article_id, path, now))
    \/ \E days \in Retentions : cleanup_select(days)
    \/ cleanup_delete_tags
    \/ cleanup_delete_status
    \/ cleanup_delete_articles
    \/ cleanup_finish

SpecPurgeRace == InitObserving({"cleanup_old_unsaved_articles"}) /\ [][NextPurgeRace]_vars

----------------------------------------------------------------------------
(* The fetcher (src/artui/fetcher.py): fetch_all_categories walks the configured *)
(* categories and filters; for a key that is due it searches arXiv, hands the    *)
(* results to add_articles_batch and writes the key's row of fetched_categories. *)

\* the keys of the configuration in the order of the two loops: the code of one
\* category, then f"filter_{filter_name}" of one filter that has search terms
FetchKeys == <<"cs.AI", "filter_ml">>

\* the default of should_fetch_category's parameter hours_threshold
hours_threshold_default == 6

\* datetime.fromisoformat
fromisoformat(text) == text[1] * 10 + text[2]

\* INSERT OR IGNORE: a row that is present stays as it is
do_update_category_fetch_info_ignore(fc, category_code, t) ==
    IF \E r \in fc : r.category_code = category_code
    THEN fc
    ELSE fc \cup {[category_code |-> category_code, last_fetched |-> IsoFormat(t)]}

\* INSERT OR REPLACE INTO fetched_categories: category_code is the primary key, the
\* row of the key is replaced
do_update_category_fetch_info(fc, category_code, t) ==
    {r \in fc : r.category_code # category_code}
        \cup {[category_code |-> category_code, last_fetched |-> IsoFormat(t)]}

\* SELECT * FROM fetched_categories WHERE category_code = ?; fetchone(): the set of
\* the row returned, empty for None
get_category_fetch_info(fc, category_code) ==
    LET rows == {r \in fc : r.category_code = category_code}
    IN  IF rows = {} THEN {} ELSE {CHOOSE r \in rows : TRUE}

should_fetch_category(fc, category_code, hours_threshold, t) ==
    LET fetch_info == get_category_fetch_info(fc, category_code)
    IN  IF fetch_info = {}
        THEN TRUE
        ELSE \A row \in fetch_info : fromisoformat(row.last_fetched) < t - hours_threshold

FetcherSteps(f) ==
    /\ fetcher' = f
    /\ UNCHANGED <<db, conn, pc, retention_days, ids_to_delete, deleted_count, now, last,
                   observed, ui, worker, fetched_categories, hours, search_results, notes_popup>>

fetch_all_categories(force) ==
    /\ fetcher.pc = "idle"
    /\ FetcherSteps([FetcherIdle EXCEPT !.pc = "loop", !.force = force, !.i = 1])

\* `if force or self.should_fetch_category(key)`, else the key is skipped
fetch_all_categories_if ==
    /\ fetcher.pc = "loop"
    /\ fetcher.i <= Len(FetchKeys)
    /\ IF \/ fetcher.force
          \/ should_fetch_category(fetched_categories, FetchKeys[fetcher.i],
                                   hours_threshold_default, hours)
       THEN FetcherSteps([fetcher EXCEPT !.pc = "search"])
       ELSE FetcherSteps([fetcher EXCEPT !.i = @ + 1])

\* articles = list(search.results()): the request to arXiv answers
fetch_search(articles) ==
    /\ fetcher.pc = "search"
    /\ FetcherSteps([fetcher EXCEPT !.pc = "add_articles_batch", !.articles = articles])

\* the request raises, and the fetch is recorded all the same
fetch_search_raises_recorded ==
    /\ fetcher.pc = "search"
    /\ fetched_categories' =
            do_update_category_fetch_info(fetched_categories, FetchKeys[fetcher.i], hours)
    /\ fetcher' = [fetcher EXCEPT !.pc = "loop", !.i = @ + 1, !.raised = @ \cup {fetcher.i}]
    /\ UNCHANGED <<db, conn, pc, retention_days, ids_to_delete, deleted_count, now, last, observed,
                   ui, worker, hours, search_results, notes_popup>>

\* the request raises: `except Exception`, return 0
fetch_search_raises ==
    /\ fetcher.pc = "search"
    /\ FetcherSteps([fetcher EXCEPT !.pc = "loop", !.i = @ + 1, !.raised = @ \cup {fetcher.i}])

\* added_count = self.db.add_articles_batch(articles)
fetch_add_articles_batch ==
    /\ fetcher.pc = "add_articles_batch"
    /\ pc = "idle"
    /\ LET r == do_add_articles_batch(db, fetcher.articles)
       IN  /\ db' = r.db
           /\ fetcher' = [fetcher EXCEPT !.pc = "update_category_fetch_info",
                                         !.added_count = r.ret]
    /\ UNCHANGED <<conn, pc, retention_days, ids_to_delete, deleted_count, now, last,
                   observed, ui, worker, fetched_categories, hours, search_results, notes_popup>>

\* self.db.update_category_fetch_info(key, name, len(articles)); return added_count
fetch_update_category_fetch_info ==
    /\ fetcher.pc = "update_category_fetch_info"
    /\ fetched_categories' =
            do_update_category_fetch_info(fetched_categories, FetchKeys[fetcher.i], hours)
    /\ fetcher' = [fetcher EXCEPT !.pc = "loop", !.i = @ + 1, !.articles = <<>>,
                                  !.added_count = -1]
    /\ UNCHANGED <<db, conn, pc, retention_days, ids_to_delete, deleted_count, now, last,
                   observed, ui, worker, hours, search_results, notes_popup>>

\* both loops are through: return results
fetch_all_categories_return ==
    /\ fetcher.pc = "loop"
    /\ fetcher.i > Len(FetchKeys)
    /\ FetcherSteps(FetcherIdle)

\* an hour passes
TickHour ==
    /\ hours < HourInit + MaxHours
    /\ hours' = hours + 1
    /\ UNCHANGED <<db, conn, pc, retention_days, ids_to_delete, deleted_count, now, last,
                   observed, ui, worker, fetched_categories, fetcher, search_results, notes_popup>>

NextFetch ==
    \/ \E force \in BOOLEAN : fetch_all_categories(force)
    \/ fetch_all_categories_if
    \/ \E articles \in Batches : fetch_search(articles)
    \/ fetch_search_raises
    \/ fetch_add_articles_batch
    \/ fetch_update_category_fetch_info
    \/ fetch_all_categories_return
    \/ TickHour

\* fetch_all_categories is called again and again while the hours pass
SpecFetch == Init /\ [][NextFetch]_vars

----------------------------------------------------------------------------
(* The results table of the app (src/artui/app.py): the article objects of       *)
(* search_results carry the is_saved and is_viewed of the query that loaded      *)
(* them, the key bindings test these attributes and call the store, and each     *)
(* handler sets the attributes it knows it has changed.                          *)

\* ArticleFromDB: the status attributes of the object built from a result row
ArticleFromDB(r) == [id |-> r.a.id, is_saved |-> r.s.is_saved = 1, is_viewed |-> r.s.is_viewed = 1]

\* the object with an attribute assigned
SetAttr(results, article, is_saved, is_viewed) ==
    (results \ {article}) \cup {[id |-> article.id, is_saved |-> is_saved, is_viewed |-> is_viewed]}

\* a handler of the event loop: the store calls it makes have returned when it ends
Handler(d, results, popup) ==
    /\ pc = "idle"
    /\ db' = d
    /\ search_results' = results
    /\ notes_popup' = popup
    /\ UNCHANGED <<conn, pc, retention_days, ids_to_delete, deleted_count, now, last, observed,
                   ui, worker, fetched_categories, hours, fetcher>>

\* load_articles without query: the list is rebuilt from get_all_articles
fetch_articles_from_db ==
    /\ notes_popup = NoPopup
    /\ Handler(db, {ArticleFromDB(r) : r \in get_all_articles(db, NoRetention, now)}, NoPopup)

\* the cursor moves to a row: mark_article_viewed unless the object is saved or viewed
on_data_table_row_highlighted(selected_article) ==
    /\ notes_popup = NoPopup
    /\ IF ~selected_article.is_saved /\ ~selected_article.is_viewed
       THEN Handler(do_mark_article_viewed(db, selected_article.id, now).db,
                    SetAttr(search_results, selected_article, selected_article.is_saved, TRUE),
                    NoPopup)
       ELSE Handler(db, search_results, NoPopup)

\* the save key: a toggle on the object's is_saved
action_save_article(selected_article) ==
    /\ notes_popup = NoPopup
    /\ IF selected_article.is_saved
       THEN LET r == do_mark_article_unsaved(db, selected_article.id)
            IN  Handler(r.db,
                        IF r.ret = 1
                        THEN SetAttr(search_results, selected_article, FALSE,
                                     selected_article.is_viewed)
                        ELSE search_results,
                        NoPopup)
       ELSE LET r == do_mark_article_saved(db, selected_article.id, now)
            IN  IF r.ret = 1
                THEN Handler(do_mark_article_viewed(r.db, selected_article.id, now).db,
                             SetAttr(search_results, selected_article, TRUE, TRUE), NoPopup)
                ELSE Handler(r.db, search_results, NoPopup)

\* the condition under which action_mark_unread calls db.mark_article_unread
MarkUnreadAllowed(selected_article) == selected_article.is_viewed /\ ~selected_article.is_saved

action_mark_unread(selected_article) ==
    /\ notes_popup = NoPopup
    /\ IF MarkUnreadAllowed(selected_article)
       THEN LET r == do_mark_article_unread(db, selected_article.id)
            IN  Handler(r.db,
                        IF r.ret = 1
                        THEN SetAttr(search_results, selected_article,
                                     selected_article.is_saved, FALSE)
                        ELSE search_results,
                        NoPopup)
       ELSE Handler(db, search_results, NoPopup)

\* get_notes_path: notes_file_path of the article's row, None without row
get_notes_path(d, article_id) ==
    IF \E a \in d.articles : a.id = article_id
    THEN (CHOOSE a \in d.articles : a.id = article_id).notes_file_path
    ELSE NullPath

\* action_manage_notes, show_notes_popup: an article without notes gets its notes file
\* and set_notes_path before the popup opens; is_saved of the object is not assigned
show_notes_popup(article) ==
    /\ notes_popup = NoPopup
    /\ \E path \in Paths :
        IF get_notes_path(db, article.id) = NullPath
        THEN Handler(do_set_notes_path(db, article.id, path, now).db, search_results, article.id)
        ELSE Handler(db, search_results, article.id)

\* the popup is dismissed with the new content (saved) or with None (closed)
notes_popup_callback(result) ==
    /\ notes_popup # NoPopup
    /\ IF result # None
       THEN Handler(db,
                    {IF a.id = notes_popup
                     THEN [id |-> a.id, is_saved |-> TRUE, is_viewed |-> a.is_viewed]
                     ELSE a : a \in search_results},
                    NoPopup)
       ELSE Handler(db, search_results, NoPopup)

\* tag_popup_callback with one tag to add (a tag the article is not linked to)
tag_popup_callback_add(selected_article, tag_name) ==
    /\ notes_popup = NoPopup
    /\ ~\E j \in JoinTags(db) : j.a.id = selected_article.id /\ j.t.name = tag_name
    /\ (\E t \in db.tags : t.name = tag_name) \/ db.tag_seq < MaxTagId
    /\ LET r == do_add_article_tag(db, selected_article.id, tag_name, now)
       IN  Handler(r.db,
                   IF r.ret = 1
                   THEN SetAttr(search_results, selected_article, TRUE,
                                selected_article.is_viewed)
                   ELSE search_results,
                   NoPopup)

\* tag_popup_callback with one tag to remove (a tag of the article), then
\* cleanup_orphan_tags
tag_popup_callback_remove(selected_article, tag_name) ==
    /\ notes_popup = NoPopup
    /\ \E j \in JoinTags(db) : j.a.id = selected_article.id /\ j.t.name = tag_name
    /\ Handler(do_cleanup_orphan_tags(
                    do_remove_article_tag(db, selected_article.id, tag_name).db).db,
               search_results, NoPopup)

\* a fetch stores an article while the app runs
NextApp ==
    \/ \E article \in Records : add_article(article)
    \/ fetch_articles_from_db
    \/ \E selected_article \in search_results : on_data_table_row_highlighted(selected_article)
    \/ \E selected_article \in search_results : action_save_article(selected_article)
    \/ \E selected_article \in search_results : action_mark_unread(selected_article)
    \/ \E article \in search_results : show_notes_popup(article)
    \/ \E result \in {None, "content"} : notes_popup_callback(result)
    \/ \E selected_article \in search_results, tag_name \in TagNames :
            tag_popup_callback_add(selected_article, tag_name)
    \/ \E selected_article \in search_results, tag_name \in TagNames :
            tag_popup_callback_remove(selected_article, tag_name)
    \/ Tick

SpecApp == Init /\ [][NextApp]_vars

\* every method may be called in every order; the specifications differ only in
\* the methods that `last` observes
Spec == Init /\ [][Next]_vars

SpecIngest == InitObserving({"add_article", "add_articles_batch"}) /\ [][Next]_vars

SpecTag == InitObserving({"add_article_tag"}) /\ [][Next]_vars

SpecNotes == InitObserving({"set_notes_path"}) /\ [][Next]_vars

SpecPurge == InitObserving({"cleanup_old_unsaved_articles"}) /\ [][Next]_vars

SpecStatus ==
    InitObserving({"mark_article_saved", "mark_article_unsaved", "mark_article_unread"})
        /\ [][Next]_vars

----------------------------------------------------------------------------
(* Properties *)

\* the day a stored timestamp stands for
ParseIso(text) == text[1] * 10 + text[2]

ArticleRows(d, article_id) == {a \in d.articles : a.id = article_id}
TagLinks(d, article_id) == {at \in d.article_tags : at.article_id = article_id}

\* the status of an article; no row means {saved: false, viewed: false}
StatusOf(d, article_id) ==
    IF StatusRows(d, article_id) = {} THEN DefaultStatus(article_id)
    ELSE CHOOSE s \in StatusRows(d, article_id) : TRUE

IsSaved(d, article_id) == StatusOf(d, article_id).is_saved = 1
IsViewed(d, article_id) == StatusOf(d, article_id).is_viewed = 1

SameRows(d1, d2, article_id) ==
    /\ ArticleRows(d1, article_id) = ArticleRows(d2, article_id)
    /\ StatusRows(d1, article_id) = StatusRows(d2, article_id)
    /\ TagLinks(d1, article_id) = TagLinks(d2, article_id)

ListedIds(rows) == {row.a.id : row \in rows}

\* C1: after add_article(r) the store holds exactly one Article with r.id; an
\* add_article for an id that is already stored returns False, an add_articles_batch
\* does not count the ids that were already stored, and both leave the Article row,
\* the status row and the tag links of such an id as they were.
C1_IdempotentIngestion ==
    [][/\ last'.op = "add_article" =>
            /\ Cardinality(ArticleRows(db', last'.id)) = 1
            /\ article_exists(db, last'.id) => (last'.ret = 0 /\ db' = db)
       /\ last'.op = "add_articles_batch" =>
            /\ \A id \in ArticleIds : article_exists(db, id) => SameRows(db, db', id)
            /\ last'.ret <= Cardinality({a.id : a \in db'.articles} \ {a.id : a \in db.articles})
      ]_vars

\* C2: when add_article_tag creates a new link for an ingested article (returns
\* True), the article is saved afterwards and is_viewed and viewed_at are what
\* they were before the call.
C2_PromotionOnTagging ==
    [][(last'.op = "add_article_tag" /\ last'.ret = 1 /\ article_exists(db, last'.id)) =>
            /\ IsSaved(db', last'.id)
            /\ StatusOf(db', last'.id).is_viewed = StatusOf(db, last'.id).is_viewed
            /\ StatusOf(db', last'.id).viewed_at = StatusOf(db, last'.id).viewed_at
      ]_vars

\* an article viewed on the first day is tagged a day later: it is saved now and
\* still viewed since the first day
C2_Witness ==
    /\ last.op = "add_article_tag" /\ last.ret = 1
    /\ article_exists(db, last.id)
    /\ TagLinks(db, last.id) # {}
    /\ StatusOf(db, last.id).is_saved = 1
    /\ StatusOf(db, last.id).is_viewed = 1
    /\ StatusOf(db, last.id).viewed_at = IsoFormat(NowInit)
    /\ StatusOf(db, last.id).saved_at = IsoFormat(NowInit + 1)

\* C3: for every retention window R an article is in get_all_articles(R) iff it was
\* published on or after now - R or it is not viewed, and in
\* get_articles_by_category(c, R) iff moreover c is one of its categories.
C3_FeedRetentionRule ==
    \A R \in Retentions : \A a \in db.articles :
        LET visible == ParseIso(a.published_date) >= now - R \/ ~IsViewed(db, a.id)
        IN  /\ a.id \in ListedIds(get_all_articles(db, R, now)) <=> visible
            /\ \A c \in CategoryCodes :
                 a.id \in ListedIds(get_articles_by_category(db, c, R, now))
                    <=> (visible /\ \E i \in DOMAIN a.categories : a.categories[i] = c)

\* R = 0: of two old articles the viewed one is not listed, the unviewed one is
C3_Witness ==
    \E a, b \in db.articles :
        /\ ParseIso(a.published_date) < now /\ ParseIso(b.published_date) < now
        /\ IsViewed(db, a.id) /\ ~IsViewed(db, b.id)
        /\ a.id \notin ListedIds(get_all_articles(db, 0, now))
        /\ b.id \in ListedIds(get_all_articles(db, 0, now))
        /\ b.id \in ListedIds(get_articles_by_category(db, "hep-ex", 0, now))

\* C4: cleanup_old_unsaved_articles never takes as a candidate, and never deletes a
\* row of, an article that is saved when the call starts or that was published
\* within the last retention_days days: its Article row (with the notes path), its
\* status row and its tag links stay as they are while the purge runs and when it ends.
C4_PurgeSparesSavedAndRecent ==
    [][/\ pc' # "idle" =>
            \A a \in db'.articles :
                (IsSaved(db', a.id) \/ ParseIso(a.published_date) >= now' - retention_days') =>
                    /\ a.id \notin ids_to_delete'
                    /\ WriteLocked' => SameRows(db', conn', a.id)
       /\ (pc = "cleanup_orphans" /\ pc' = "idle") =>
            \A a \in db.articles :
                (IsSaved(db, a.id) \/ ParseIso(a.published_date) >= now - retention_days) =>
                    SameRows(db, db', a.id)
      ]_vars

\* the purge has deleted its candidates; an old saved article with a tag and notes
\* still has all its rows
C4_Witness ==
    /\ pc = "cleanup_orphans"
    /\ \E a \in conn.articles :
        /\ a.id \notin ids_to_delete
        /\ ParseIso(a.published_date) < now - retention_days
        /\ IsSaved(conn, a.id)
        /\ TagLinks(conn, a.id) # {}
        /\ a.notes_file_path # NullPath
    /\ \E id \in ids_to_delete : ArticleRows(conn, id) = {} /\ ArticleRows(db, id) # {}

\* C5: the purge deletes the tag links of its candidates, then their status rows,
\* then their Article rows: at every step of the purge and when it has ended, no
\* article_tags row and no article_status row refers to an article that this purge
\* has deleted.
C5_CascadingDeleteIntegrity ==
    [][/\ WriteLocked' =>
            \A id \in ids_to_delete' :
                ArticleRows(conn', id) = {} => (StatusRows(conn', id) = {} /\ TagLinks(conn', id) = {})
       /\ (WriteLocked /\ WriteLocked') =>
            /\ conn'.article_status # conn.article_status =>
                    \A id \in ids_to_delete : TagLinks(conn, id) = {}
            /\ conn'.articles # conn.articles =>
                    \A id \in ids_to_delete : TagLinks(conn, id) = {} /\ StatusRows(conn, id) = {}
       /\ (pc = "cleanup_orphans" /\ pc' = "idle") =>
            \A id \in ArticleIds :
                (ArticleRows(db, id) # {} /\ ArticleRows(db', id) = {}) =>
                    (StatusRows(db', id) = {} /\ TagLinks(db', id) = {})
      ]_vars

\* the purge has deleted a candidate that had a status row and a tag link
C5_Witness ==
    /\ pc = "cleanup_orphans"
    /\ \E id \in ids_to_delete :
        /\ TagLinks(db, id) # {} /\ StatusRows(db, id) # {} /\ ArticleRows(db, id) # {}
        /\ ArticleRows(conn, id) = {}

C7_SavedCountMatchesList ==
    get_saved_articles_count(db) = Cardinality(get_saved_articles(db))

\* C8: get_unread_count, get_feed_articles_count(R), get_unread_count_by_category(c, R)
\* and get_unread_count_by_tag(t) equal the number of (unviewed) rows of
\* get_unread_articles, get_all_articles(R), get_articles_by_category(c, R) and
\* get_articles_by_tag(t).
C8_FeedAndUnreadCountsMatchLists ==
    /\ get_unread_count(db) = Cardinality(get_unread_articles(db))
    /\ \A R \in Retentions \cup {NoRetention} :
        /\ get_feed_articles_count(db, R, now) = Cardinality(get_all_articles(db, R, now))
        /\ \A c \in CategoryCodes :
             get_unread_count_by_category(db, c, R, now) =
                Cardinality({row \in get_articles_by_category(db, c, R, now) : Unviewed(row.s)})
    /\ \A t \in TagNames :
        get_unread_count_by_tag(db, t) =
            Cardinality({row \in get_articles_by_tag(db, t) : Unviewed(row.s)})

\* one id has a status row and a tag link but no Article; the other is ingested,
\* tagged and unread, and counted once by every counter
C8_Witness ==
    /\ \E s \in db.article_status : ~article_exists(db, s.article_id) /\ TagLinks(db, s.article_id) # {}
    /\ get_unread_count(db) = 1
    /\ get_feed_articles_count(db, 0, now) = 1
    /\ \E c \in CategoryCodes : get_unread_count_by_category(db, c, 0, now) = 1
    /\ \E t \in TagNames : get_unread_count_by_tag(db, t) = 1

C10_NotesPromotion ==
    [][\A id \in ArticleIds, path \in Paths :
            set_notes_path(id, path) =>
                IF article_exists(db, id)
                THEN /\ last'.ret = 1
                     /\ \A a \in ArticleRows(db', id) : a.notes_file_path = path
                     /\ ArticleRows(db', id) # {}
                     /\ IsSaved(db', id)
                     /\ StatusOf(db', id).is_viewed = StatusOf(db, id).is_viewed
                     /\ StatusOf(db', id).viewed_at = StatusOf(db, id).viewed_at
                ELSE last'.ret = 0 /\ db' = db
      ]_vars

\* notes are attached, a day after it was viewed, to an article that is still
\* viewed since the first day and saved now
C10_Witness ==
    /\ last.op = "set_notes_path" /\ last.ret = 1
    /\ \E a \in ArticleRows(db, last.id) : a.notes_file_path \in Paths
    /\ StatusOf(db, last.id).is_saved = 1
    /\ StatusOf(db, last.id).is_viewed = 1
    /\ StatusOf(db, last.id).viewed_at = IsoFormat(NowInit)
    /\ StatusOf(db, last.id).saved_at = IsoFormat(NowInit + 1)

\* C11: when an add_article and an add_articles_batch (or another add_article) for
\* the same id interleave, neither raises, each new id is reported as added by exactly
\* one of them, and the store ends with one Article and one status row for the id.
C11_DuplicateKeyRace ==
    (ui.pc = "done" /\ worker.pc = "done") =>
        /\ ui.exc = ""
        /\ ui.ret + worker.ret = Cardinality({a.id : a \in db.articles})
        /\ Cardinality(ArticleRows(db, ui.article.id)) = 1
        /\ Cardinality(StatusRows(db, ui.article.id)) = 1

\* a call reports failure: it returns False or raises
Failed(r) == r.ret = 0 \/ r.exc # ""

\* C12: add_article_tag(id, name) and mark_article_saved(id) for an id that was never
\* ingested report failure and leave the store unchanged: no Tag row, no link and no
\* status row is created.
C12_NotFoundOnMissingArticle ==
    [][\A id \in ArticleIds :
            ~article_exists(db, id) =>
                /\ mark_article_saved(id) =>
                        (Failed(do_mark_article_saved(db, id, now)) /\ db' = db)
                /\ \A tag_name \in TagNames :
                        add_article_tag(id, tag_name) =>
                            (Failed(do_add_article_tag(db, id, tag_name, now)) /\ db' = db)
      ]_vars

StoredIds(d) == {a.id : a \in d.articles}

\* C13: add_articles_batch returns the number of Article rows that exist after the
\* call and did not exist before it, for every batch and every store, also when a
\* status row of a not yet ingested id exists.
C13_BatchCountsNewArticles ==
    [][last'.op = "add_articles_batch" =>
            last'.ret = Cardinality(StoredIds(db') \ StoredIds(db))]_vars

\* C14: when the ingestion of a record of a batch fails, add_articles_batch still
\* adds every other new record of the batch, those before and those after the failed
\* one, commits them and returns their number.
C14_BatchSurvivesBadRecord ==
    (worker.pc = "done" /\ worker.caught # {}) =>
        LET others == {worker.articles[i].id : i \in DOMAIN worker.articles \ worker.caught}
            added_by_ui == IF ui.pc = "done" /\ ui.ret = 1 THEN {ui.article.id} ELSE {}
        IN  /\ \A id \in others :
                    Cardinality(ArticleRows(db, id)) = 1 /\ Cardinality(StatusRows(db, id)) = 1
            /\ worker.ret = Cardinality(others \ added_by_ui)

\* the batch has failed on the entry without pdf link, in first or in second place,
\* and has added and committed the other record
C14_Witness ==
    /\ worker.pc = "done" /\ worker.ret = 1
    /\ \E i \in DOMAIN worker.articles :
        /\ worker.caught = {i}
        /\ NotNullViolated(worker.articles[i])
        /\ \E j \in DOMAIN worker.articles :
               j # i /\ ArticleRows(db, worker.articles[j].id) = {ArticleRow(worker.articles[j])}

\* C15: cleanup_orphan_tags removes exactly the tags that get_all_tags lists with
\* article_count 0 when it is called, returns their number, keeps every tag that is
\* linked to an article and touches no other table.
C15_OrphanCleanupPrecision ==
    [][last'.op = "cleanup_orphan_tags" =>
            /\ get_all_tags(db') = {t \in get_all_tags(db) : t.article_count > 0}
            /\ last'.ret = Cardinality({t \in get_all_tags(db) : t.article_count = 0})
            /\ db'.article_tags = db.article_tags
            /\ db'.articles = db.articles
            /\ db'.article_status = db.article_status
      ]_vars

\* two tags were created; the cleanup has removed the one without link and kept the
\* one that an article still carries
C15_Witness ==
    /\ last.op = "cleanup_orphan_tags" /\ last.ret = 1
    /\ db.tag_seq = 2
    /\ \E t \in get_all_tags(db) : t.article_count = 1 /\ get_all_tags(db) = {t}

TagIds(d, tag_name) == {t.id : t \in {u \in d.tags : u.name = tag_name}}

\* C16: remove_article_tag(id, name) removes the link (id, name) if there is one and
\* nothing else, and returns whether it did: the Tag row stays, also when its last
\* link goes, and no Article or status row changes; every tag that get_all_tags
\* lists is still listed after every step other than cleanup_orphan_tags.
C16_RemoveTagKeepsTagRow ==
    [][/\ \A id \in ArticleIds, tag_name \in MoreTagNames :
            remove_article_tag(id, tag_name) =>
                LET link == {at \in db.article_tags :
                                at.article_id = id /\ at.tag_id \in TagIds(db, tag_name)}
                IN  /\ db'.article_tags = db.article_tags \ link
                    /\ last'.ret = Bool(link # {})
                    /\ db'.tags = db.tags
                    /\ db'.articles = db.articles
                    /\ db'.article_status = db.article_status
       /\ last'.op # "cleanup_orphan_tags" =>
            {t.name : t \in get_all_tags(db)} \subseteq {t.name : t \in get_all_tags(db')}
      ]_vars

\* the last link of a tag has been removed from a viewed article that was unsaved
\* before: the tag is listed with count 0, the article is still viewed and unsaved
C16_Witness ==
    /\ last.op = "remove_article_tag" /\ last.ret = 1
    /\ \E t \in get_all_tags(db) : t.article_count = 0
    /\ article_exists(db, last.id)
    /\ TagLinks(db, last.id) = {}
    /\ IsViewed(db, last.id) /\ ~IsSaved(db, last.id)

\* the articles that are unsaved and were published before now - R
OldUnsaved(d, R, t) ==
    {a.id : a \in {b \in d.articles : ~IsSaved(d, b.id) /\ ParseIso(b.published_date) < t - R}}

\* C17: cleanup_old_unsaved_articles(R) deletes exactly the articles that are unsaved
\* and were published before now - R, whatever their viewed flag, tags and notes,
\* and returns their number; a second call right after it finds no candidate.
C17_PurgeDeletesExactlyOldUnsaved ==
    [][last'.op = "cleanup_old_unsaved_articles" =>
            /\ last'.exc = ""
            /\ last'.ret = Cardinality(ids_to_delete)
            /\ StoredIds(db') = StoredIds(db) \ ids_to_delete
            /\ pc = "cleanup_orphans" =>
                    /\ ids_to_delete = OldUnsaved(db, retention_days, now)
                    /\ OldUnsaved(db', retention_days, now) = {}
      ]_vars

\* C18: an article that get_saved_articles lists is still listed after every step
\* that is not mark_article_unsaved on it: whatever its age and viewed flag, and
\* through re-ingestion, tag changes, days passing and purges.
C18_LibraryPersistence ==
    [][\A id \in ArticleIds :
            (id \in ListedIds(get_saved_articles(db)) /\ ~mark_article_unsaved(id)) =>
                id \in ListedIds(get_saved_articles(db'))
      ]_vars

\* a purge has run; a saved article that is viewed and older than the window is
\* outside the feed and in the library
C18_Witness ==
    /\ last.op = "cleanup_old_unsaved_articles"
    /\ \E a \in db.articles :
        /\ IsViewed(db, a.id)
        /\ ParseIso(a.published_date) < now
        /\ a.id \notin ListedIds(get_all_articles(db, 0, now))
        /\ a.id \in ListedIds(get_saved_articles(db))

\* C19: every stored Article has exactly one status row in every committed state (what
\* a reader on another connection sees); an Article that becomes visible does so
\* together with its default status row; an ingestion that fails leaves no row.
C19_ArticleAndStatusTogether ==
    [][/\ \A a \in db'.articles : Cardinality(StatusRows(db', a.id)) = 1
       /\ \A id \in StoredIds(db') \ StoredIds(db) : StatusRows(db', id) = {DefaultStatus(id)}
       /\ (last'.op = "add_article" /\ last'.exc # "") => db' = db
      ]_vars

SameViewed(d1, d2, id) ==
    /\ StatusOf(d1, id).is_viewed = StatusOf(d2, id).is_viewed
    /\ StatusOf(d1, id).viewed_at = StatusOf(d2, id).viewed_at

SameSaved(d1, d2, id) ==
    /\ StatusOf(d1, id).is_saved = StatusOf(d2, id).is_saved
    /\ StatusOf(d1, id).saved_at = StatusOf(d2, id).saved_at

\* C20: for an ingested article mark_article_saved returns True iff the article was
\* not saved, mark_article_unsaved iff it was saved and mark_article_unread iff it
\* was viewed; after the call the flag has the requested value, and the viewed
\* columns (for the first two) or the saved columns (for the third) are as before.
C20_StatusPrimitivesReportFlip ==
    [][article_exists(db, last'.id) =>
            /\ last'.op = "mark_article_saved" =>
                    /\ last'.ret = Bool(~IsSaved(db, last'.id))
                    /\ IsSaved(db', last'.id)
                    /\ SameViewed(db, db', last'.id)
            /\ last'.op = "mark_article_unsaved" =>
                    /\ last'.ret = Bool(IsSaved(db, last'.id))
                    /\ ~IsSaved(db', last'.id)
                    /\ SameViewed(db, db', last'.id)
            /\ last'.op = "mark_article_unread" =>
                    /\ last'.ret = Bool(IsViewed(db, last'.id))
                    /\ ~IsViewed(db', last'.id)
                    /\ SameSaved(db, db', last'.id)
      ]_vars

\* mark_article_unsaved has returned False for an ingested article that was not
\* saved; the article is viewed since the first day
C20_Witness ==
    /\ last.op = "mark_article_unsaved" /\ last.ret = 0
    /\ article_exists(db, last.id)
    /\ ~IsSaved(db, last.id)
    /\ IsViewed(db, last.id)
    /\ StatusOf(db, last.id).viewed_at = IsoFormat(NowInit)
    /\ now = NowInit + 1

\* C21: add_article, mark_article_viewed, mark_article_saved, mark_article_unsaved
\* and mark_article_unread, applied a second time with the same argument (at once or
\* a day later), leave every table, saved_at and viewed_at included, as the first
\* application left it.
C21_RetryIsIdempotent ==
    \A t2 \in {now, now + 1} :
        /\ \A article \in Records :
                LET once == do_add_article(db, article).db
                IN  do_add_article(once, article).db = once
        /\ \A id \in ArticleIds :
                LET viewed == do_mark_article_viewed(db, id, now).db
                    saved == do_mark_article_saved(db, id, now).db
                    unsaved == do_mark_article_unsaved(db, id).db
                    unread == do_mark_article_unread(db, id).db
                IN  /\ do_mark_article_viewed(viewed, id, t2).db = viewed
                    /\ do_mark_article_saved(saved, id, t2).db = saved
                    /\ do_mark_article_unsaved(unsaved, id).db = unsaved
                    /\ do_mark_article_unread(unread, id).db = unread

\* an article was viewed and saved on the first day; a day later mark_article_viewed
\* and mark_article_saved leave both timestamps on the first day
C21_Witness ==
    /\ now = NowInit + 1
    /\ \E a \in db.articles :
        /\ StatusOf(db, a.id).viewed_at = IsoFormat(NowInit)
        /\ StatusOf(db, a.id).saved_at = IsoFormat(NowInit)
        /\ do_mark_article_viewed(db, a.id, now).db = db
        /\ do_mark_article_saved(db, a.id, now).db = db

\* the rows of the fetch log for a key
FetchRows(fc, key) == {r \in fc : r.category_code = key}

\* never fetched, or the last fetch is more than h hours before hour t
Due(fc, key, h, t) ==
    \/ FetchRows(fc, key) = {}
    \/ \E r \in FetchRows(fc, key) : ParseIso(r.last_fetched) < t - h

AllFetchKeys == {FetchKeys[i] : i \in DOMAIN FetchKeys}
Thresholds == {0, 1, hours_threshold_default}

\* C22: should_fetch_category(key, h) is true exactly when the fetch log has no row
\* for key or the row's last_fetched is more than h hours old; the log never has two
\* rows for a key; when update_category_fetch_info has written key, the log has one row
\* for key, key is not due for any h > 0 and the answer for every other key is the
\* same as before; and while the hours pass, key is due again as soon as more than h
\* hours lie between the row and the clock.
C22_ShouldFetchFollowsLog ==
    [][/\ \A key \in AllFetchKeys :
            /\ Cardinality(FetchRows(fetched_categories', key)) <= 1
            /\ \A h \in Thresholds :
                    should_fetch_category(fetched_categories', key, h, hours')
                        <=> Due(fetched_categories', key, h, hours')
       /\ \A i \in DOMAIN FetchKeys :
            (fetch_update_category_fetch_info /\ fetcher.i = i) =>
                /\ Cardinality(FetchRows(fetched_categories', FetchKeys[i])) = 1
                /\ \A h \in Thresholds \ {0} :
                        ~should_fetch_category(fetched_categories', FetchKeys[i], h, hours')
                /\ \A other \in AllFetchKeys \ {FetchKeys[i]}, h \in Thresholds :
                        should_fetch_category(fetched_categories', other, h, hours')
                            <=> should_fetch_category(fetched_categories, other, h, hours)
       /\ TickHour =>
            \A key \in AllFetchKeys, h \in Thresholds :
                \A r \in FetchRows(fetched_categories, key) :
                    should_fetch_category(fetched_categories', key, h, hours')
                        <=> hours' - ParseIso(r.last_fetched) > h
      ]_vars

\* one key fetched long enough ago to be due again while the other, fetched later,
\* is not
C22_Witness ==
    \E r1, r2 \in fetched_categories :
        /\ r1.category_code # r2.category_code
        /\ should_fetch_category(fetched_categories, r1.category_code,
                                 hours_threshold_default, hours)
        /\ ~should_fetch_category(fetched_categories, r2.category_code,
                                  hours_threshold_default, hours)
        /\ ParseIso(r2.last_fetched) > ParseIso(r1.last_fetched)

\* most recent publication first
NewestFirst(q) ==
    \A i, j \in DOMAIN q :
        i < j => ParseIso(q[i].a.published_date) >= ParseIso(q[j].a.published_date)

\* C23: every list query (feed, by category, unread, by tag, saved) returns its rows
\* ordered by publication date, most recent first.
C23_ListsNewestFirst ==
    /\ \A R \in Retentions \cup {NoRetention} :
            /\ \A q \in get_all_articles_fetchall(db, R, now) : NewestFirst(q)
            /\ \A category \in CategoryCodes :
                    \A q \in get_articles_by_category_fetchall(db, category, R, now) :
                        NewestFirst(q)
    /\ \A q \in get_unread_articles_fetchall(db) : NewestFirst(q)
    /\ \A tag_name \in TagNames : \A q \in get_articles_by_tag_fetchall(db, tag_name) : NewestFirst(q)
    /\ \A q \in get_saved_articles_fetchall(db) : NewestFirst(q)

\* C24: no operation writes through a second connection while its own first
\* connection holds the write lock, so the orphan cleanup that the purge calls is
\* not blocked by the purge's open transaction and no call ends with a lock error.
C24_NoSelfLock ==
    /\ pc = "cleanup_orphans" => ~database_is_locked(get_connection("cleanup_orphan_tags"))
    /\ last.exc # "OperationalError"

\* the tags all of whose links, at least one, go to articles in ids
OnlyLinkedTo(d, ids) ==
    {t \in d.tags :
        /\ \E at \in d.article_tags : at.tag_id = t.id
        /\ \A at \in d.article_tags : at.tag_id = t.id => at.article_id \in ids}

C26_PurgeIsAtomic ==
    [][/\ (pc # "idle" /\ pc' # "idle") => db' = db
       /\ (cleanup_delete_tags \/ cleanup_delete_status \/ cleanup_delete_articles) =>
            \A id \in ids_to_delete : ~IsSaved(db, id)
      ]_vars

\* the article has a tag link or a notes path
TaggedOrAnnotated(d, id) ==
    \/ TagLinks(d, id) # {}
    \/ \E a \in ArticleRows(d, id) : a.notes_file_path # NullPath

\* C27: in every reachable store, every article with a tag link or a notes path is
\* saved, and the purge never selects an article with tags or notes for deletion.
C27_TaggedOrAnnotatedIsSaved ==
    /\ \A id \in ArticleIds : TaggedOrAnnotated(db, id) => IsSaved(db, id)
    /\ \A id \in ids_to_delete : ~TaggedOrAnnotated(db, id)

\* C28: whenever the mark-unread key calls mark_article_unread, the article is not
\* saved in the store, and no step of the app takes a saved article from viewed to
\* unviewed.
C28_UiBlocksUnreadOfSaved ==
    [][/\ \A selected_article \in search_results :
            (action_mark_unread(selected_article) /\ MarkUnreadAllowed(selected_article)) =>
                ~IsSaved(db, selected_article.id)
       /\ \A id \in ArticleIds :
            (IsSaved(db, id) /\ IsViewed(db, id)) => IsViewed(db', id)
      ]_vars

\* C29: when an id was marked saved before it was ever ingested, add_article of a
\* record with that id returns True without raising, afterwards the article is stored
\* and listed as saved, and add_articles_batch of the same record gives the same store.
C29_IngestAfterLegacyImport ==
    [][\A article \in Records :
            (/\ add_article(article)
             /\ ~article_exists(db, article.id)
             /\ IsSaved(db, article.id)
             /\ ~NotNullViolated(article)) =>
                /\ last'.ret = 1 /\ last'.exc = ""
                /\ article_exists(db', article.id)
                /\ article.id \in ListedIds(get_saved_articles(db'))
                /\ db' = do_add_articles_batch(db, <<article>>).db
      ]_vars

\* the key that fetch_all_categories is working on
FetcherKey == FetchKeys[fetcher.i]

\* C30: fetch_all_categories(force = False) sends the request for a key only when
\* should_fetch_category(key) is true, and with force = True for every key; while the
\* request is out no table is written; fetched_categories is written only by the step
\* that follows add_articles_batch, for the key just fetched; and a request that raises
\* leaves the key's row as it was, so that an unforced run finds the key due again.
C30_FetchScheduling ==
    [][/\ fetch_all_categories_if =>
            fetcher'.pc = (IF \/ fetcher.force
                              \/ Due(fetched_categories, FetcherKey, hours_threshold_default, hours)
                           THEN "search" ELSE "loop")
       /\ (fetcher.pc = "search" /\ fetcher'.pc # "search" /\ ~fetcher.force) =>
            Due(fetched_categories, FetcherKey, hours_threshold_default, hours)
       /\ (fetcher.pc = "search" \/ fetcher'.pc = "search") =>
            UNCHANGED <<db, fetched_categories>>
       /\ db' # db => fetcher.pc = "add_articles_batch" /\ fetcher'.pc = "update_category_fetch_info"
       /\ fetched_categories' # fetched_categories =>
            /\ fetcher.pc = "update_category_fetch_info"
            /\ fetcher.added_count >= 0
            /\ \A key \in AllFetchKeys \ {FetcherKey} :
                    FetchRows(fetched_categories', key) = FetchRows(fetched_categories, key)
       /\ (fetcher.pc = "search" /\ fetcher'.pc = "loop") =>
            /\ fetched_categories' = fetched_categories
            /\ ~fetcher.force =>
                    Due(fetched_categories', FetcherKey, hours_threshold_default, hours')
      ]_vars

\* an unforced run is through: the request for the first key, fetched before and due
\* again, raised and the key is still due; the second key was fetched, its articles
\* are stored and its row carries the hour of this fetch
C30_Witness ==
    /\ fetcher.pc = "loop" /\ fetcher.i > Len(FetchKeys) /\ ~fetcher.force
    /\ fetcher.raised = {1}
    /\ FetchRows(fetched_categories, FetchKeys[1]) # {}
    /\ Due(fetched_categories, FetchKeys[1], hours_threshold_default, hours)
    /\ \E r \in FetchRows(fetched_categories, FetchKeys[2]) : ParseIso(r.last_fetched) = hours
    /\ db.articles # {}

====
